---- MODULE Spec2Model ----
(***************************************************************************)
(* A model of mkvCut.py: the time-code parser and formatter, the output    *)
(* path resolver, the ffmpeg invoker and the interactive session of main.  *)
(*                                                                         *)
(* Text is a sequence of one-character strings.  "SUP2" stands for the     *)
(* single character U+00B2 (superscript two), for which str.isdigit() is   *)
(* true and int() raises ValueError.                                       *)
(***************************************************************************)
EXTENDS Integers, Sequences, FiniteSets, TLC

VARIABLES
    pc,           \* position of the process: in main, in a parse_time call, or exited
    sys_argv,     \* sys.argv: the script name followed by the positional arguments
    files,        \* names of the files present in the program directory
    time_str,     \* argument of the latest parse_time call
    parsed,       \* outcome of the latest parse_time call
    start_input,  \* main: start_input
    start_time,   \* main: start_time
    end_input,    \* main: end_input
    end_time,     \* main: end_time
    output_path,  \* main: output_path (the file name inside the program directory)
    response,     \* the line read at the confirm prompt
    confirm,      \* main: confirm
    cmd,          \* argument list of the latest subprocess.run call
    invocations,  \* number of subprocess.run calls made so far
    tool,         \* what the external tool did: "none", "ok", "failed", "notfound"
    success,      \* main: success
    shown,        \* the messages and prompts printed so far
    exit_status   \* exit status of the process; -1 while it is running

vars == << pc, sys_argv, files, time_str, parsed, start_input, start_time,
           end_input, end_time, output_path, response, confirm, cmd,
           invocations, tool, success, shown, exit_status >>

\* ------------------------------------------------------------------ bounds

MaxLen == 7        \* longest line explored exhaustively by the parser specification
MaxTyped == 1      \* longest generated line typed at a time prompt of the session
MaxExisting == 2   \* largest counter among the files already in the program directory
MaxArgs == 2       \* most positional arguments given on the command line

\* ------------------------------------------------------------------ text

Digit == {"0", "1", "2", "3", "4", "5", "6", "7", "8", "9"}

DigitChars == << "0", "1", "2", "3", "4", "5", "6", "7", "8", "9" >>

\* int() of one decimal digit
DigitVal(c) == CHOOSE d \in 0..9 : DigitChars[d + 1] = c

\* the characters str.strip() removes
Whitespace == {" "}

\* the characters for which str.isdigit() is true
IsDigitChar(c) == c \in Digit \cup {"SUP2"}

\* str.strip()
RECURSIVE LStrip(_)
LStrip(s) == IF s # << >> /\ Head(s) \in Whitespace THEN LStrip(Tail(s)) ELSE s

RECURSIVE RStrip(_)
RStrip(s) ==
    IF s # << >> /\ s[Len(s)] \in Whitespace
    THEN RStrip(SubSeq(s, 1, Len(s) - 1))
    ELSE s

Strip(s) == RStrip(LStrip(s))

\* str.lower()
LowerChar(c) == IF c = "Y" THEN "y" ELSE IF c = "N" THEN "n" ELSE c

Lower(s) == [i \in 1..Len(s) |-> LowerChar(s[i])]

\* str.isdigit(): every character is a digit and there is at least one
IsDigit(s) == Len(s) > 0 /\ \A i \in 1..Len(s) : IsDigitChar(s[i])

\* str.zfill(width)
RECURSIVE Zfill(_, _)
Zfill(s, width) == IF Len(s) >= width THEN s ELSE Zfill(<< "0" >> \o s, width)

\* Python's s[lo:hi], with negative indices counted from the end
PyIndex(s, i) ==
    LET j == IF i < 0 THEN i + Len(s) ELSE i
    IN  IF j < 0 THEN 0 ELSE IF j > Len(s) THEN Len(s) ELSE j

PySlice(s, lo, hi) == SubSeq(s, PyIndex(s, lo) + 1, PyIndex(s, hi))

\* int(s) raises ValueError unless every character is a decimal digit
IntOk(s) == Len(s) > 0 /\ \A i \in 1..Len(s) : s[i] \in Digit

RECURSIVE IntOf(_)
IntOf(s) == IF s = << >> THEN 0 ELSE 10 * IntOf(SubSeq(s, 1, Len(s) - 1)) + DigitVal(s[Len(s)])

\* str(n) for n >= 0
RECURSIVE Str(_)
Str(n) == IF n < 10 THEN << DigitChars[n + 1] >> ELSE Str(n \div 10) \o << DigitChars[(n % 10) + 1] >>

\* ------------------------------------------------------------------ parse_time

Value(n) == [kind |-> "value", value |-> n]

\* a ValueError, told apart by its message
ValueError(msg) == [kind |-> msg, value |-> 0]

NoCall == [kind |-> "none", value |-> 0]

\* faulty variant: the hours are read only from a 6-digit text
MutHoursPart(clean_padded, length) == IF length > 5 THEN PySlice(clean_padded, 0, -4) ELSE << "0" >>

HoursPart(clean_padded, length) == IF length > 4 THEN PySlice(clean_padded, 0, -4) ELSE << "0" >>

MinutesPart(clean_padded, length) == IF length > 2 THEN PySlice(clean_padded, -4, -2) ELSE << "0" >>

SecondsPart(clean_padded) == PySlice(clean_padded, -2, Len(clean_padded))

LengthBad(length) == length > 6 \/ length < 1

parse_time(text) ==
    LET clean == Strip(text)
        length == Len(clean)
        clean_padded == Zfill(clean, 6)
        h == HoursPart(clean_padded, length)
        m == MinutesPart(clean_padded, length)
        s == SecondsPart(clean_padded)
    IN  IF ~IsDigit(clean) THEN ValueError("NonDigit")
        ELSE IF LengthBad(length) THEN ValueError("BadLength")
        ELSE IF ~(IntOk(h) /\ IntOk(m) /\ IntOk(s)) THEN ValueError("InvalidLiteral")
        ELSE Value(IntOf(h) * 3600 + IntOf(m) * 60 + IntOf(s))

\* ------------------------------------------------------------------ format_time

Pad2(n) == IF n < 10 THEN << "0" >> \o Str(n) ELSE Str(n)

\* f"{hours:02d}:{minutes:02d}:{secs:06.3f}" for a whole number of seconds
format_time(seconds) ==
    LET hours == seconds \div 3600
        minutes == (seconds % 3600) \div 60
        secs == seconds % 60
    IN  Pad2(hours) \o << ":" >> \o Pad2(minutes) \o << ":" >> \o Pad2(secs) \o << ".", "0", "0", "0" >>

\* ------------------------------------------------------------------ inputs

Seqs(S, n) == UNION {[1..k -> S] : k \in 0..n}

\* the lines the documentation and the tests name
Examples ==
    { << >>, << "1" >>, << "4", "5" >>, << "1", "0", "0" >>, << "0", "1", "3", "0" >>,
      << "0", "1", "3", "2", "4", "5" >>, << "9", "9", "9", "9", "9", "9" >>,
      << "1", "2", "3", "4", "5", "6", "7" >>, << "1", "2", "a", "4", "5" >>,
      << " ", "4", "5", " " >>, << "0", "0", "0", "0", "4", "5" >>, << "SUP2" >> }

\* every line of at most MaxLen characters over a small alphabet
ParseAlphabet == {"0", "1", "9", " ", "a", "SUP2"}

\* every all-digit line of valid length over a wider digit alphabet
DigitTexts == Seqs({"0", "1", "5", "9"}, 6)

\* the arguments of the parser specification
IsParseText(t) ==
    \/ \E n \in 0..MaxLen : t \in [1..n -> ParseAlphabet]
    \/ t \in DigitTexts \cup Examples

\* the generated lines typed at the time prompts
TypedAlphabet == {"0", "9", " ", "a"}

SessionTexts == Seqs(TypedAlphabet, MaxTyped) \cup Examples

\* the lines typed at the confirm prompt
Responses ==
    { << >>, << "y" >>, << "Y" >>, << " ", "y", " " >>, << " " >>, << "n" >>, << "N" >>,
      << "y", "e", "s" >>, << "a" >> }

\* ------------------------------------------------------------------ file system

\* the paths a command line may name: a regular file, a directory, nothing
Paths == {"clip.mp4", "folder", "missing.mp4"}

\* Path.exists()
PathExists(p) == p \in {"clip.mp4", "folder"}

\* Path.is_file()
PathIsFile(p) == p = "clip.mp4"

\* Path.stem
PathStem(p) == IF p = "clip.mp4" THEN << "c", "l", "i", "p" >> ELSE << "f" >>

\* Path.suffix
PathSuffix(p) == IF p = "clip.mp4" THEN << ".", "m", "p", "4" >> ELSE << >>

\* f"{input_stem}_{start_input}_{end_input}{input_suffix}"
BaseName(stem, s, e, suffix) == stem \o << "_" >> \o s \o << "_" >> \o e \o suffix

\* f"{input_stem}_{start_input}_{end_input}_{counter}{input_suffix}"
CounterName(stem, s, e, counter, suffix) ==
    stem \o << "_" >> \o s \o << "_" >> \o e \o << "_" >> \o Str(counter) \o suffix

\* the while loop of main: counter starts at 1 and grows until the path is free
RECURSIVE ResolveFrom(_, _, _, _, _, _, _)
ResolveFrom(fs, path, counter, stem, s, e, suffix) ==
    IF path \notin fs
    THEN path
    ELSE ResolveFrom(fs, CounterName(stem, s, e, counter, suffix), counter + 1, stem, s, e, suffix)

\* faulty variant: the existence test is an if, not a while
MutResolveOutputPath(fs, stem, s, e, suffix) ==
    IF BaseName(stem, s, e, suffix) \in fs
    THEN CounterName(stem, s, e, 1, suffix)
    ELSE BaseName(stem, s, e, suffix)

ResolveOutputPath(fs, stem, s, e, suffix) ==
    ResolveFrom(fs, BaseName(stem, s, e, suffix), 1, stem, s, e, suffix)

\* the names a run for clip.mp4 from "45" to "0130" tries first
ExistingUniverse ==
    LET stem == PathStem("clip.mp4")
        suffix == PathSuffix("clip.mp4")
        s == << "4", "5" >>
        e == << "0", "1", "3", "0" >>
    IN  {BaseName(stem, s, e, suffix)}
            \cup {CounterName(stem, s, e, k, suffix) : k \in 1..MaxExisting}

\* the command lines: nothing, or one path followed by further arguments
ArgLists ==
    {<< >>} \cup {<< p >> \o extra : p \in Paths, extra \in Seqs({"other.mp4"}, MaxArgs - 1)}

\* ------------------------------------------------------------------ cut_video

\* faulty variant: the absolute end time is passed as the duration
MutDuration(start, end) == end

Duration(start, end) == end - start

BuildCmd(ffmpeg_exe, input_path, start, end, out) ==
    << ffmpeg_exe,
       "-ss", format_time(start),
       "-i", input_path,
       "-t", format_time(Duration(start, end)),
       "-c", "copy",
       "-map", "0",
       "-avoid_negative_ts", "make_zero",
       out,
       "-y" >>

\* local ffmpeg.exe beside the program if it exists, else the system ffmpeg
FfmpegExe(local_exists) == IF local_exists THEN "ffmpeg.exe" ELSE "ffmpeg"

\* what subprocess.run(cmd, check=True) does
RunOutcomes(local_exists, system_exists) ==
    IF local_exists \/ system_exists
    THEN {"returned", "CalledProcessError"}
    ELSE {"FileNotFoundError"}

\* faulty variant: FileNotFoundError is not caught
MutHandled(outcome) == outcome \in {"CalledProcessError"}

\* the except clauses of cut_video
Handled(outcome) == outcome \in {"CalledProcessError", "FileNotFoundError"}

\* ------------------------------------------------------------------ main

ArgMissing(argv) == Len(argv) < 2

\* faulty variant: an end time equal to the start time is accepted
MutEndRejected(end, start) == end < start

EndRejected(end, start) == end <= start

\* faulty variant: only "n" cancels
MutConfirmAccepted(c) == c # << "n" >>

ConfirmAccepted(c) == c \in {<< >>, << "y" >>}

Init ==
    /\ pc = "ArgCheck"
    /\ sys_argv \in {<< "mkvCut.py" >> \o a : a \in ArgLists}
    /\ files \in SUBSET ExistingUniverse
    /\ time_str = << >>
    /\ parsed = NoCall
    /\ start_input = << >>
    /\ start_time = 0
    /\ end_input = << >>
    /\ end_time = 0
    /\ output_path = << >>
    /\ response = << >>
    /\ confirm = << >>
    /\ cmd = << >>
    /\ invocations = 0
    /\ tool = "none"
    /\ success = FALSE
    /\ shown = {}
    /\ exit_status = -1

\* lines 99-103: the argument check, up to the pause before sys.exit(1)
ArgCheck ==
    /\ pc = "ArgCheck"
    /\ IF ArgMissing(sys_argv)
       THEN /\ shown' = {"usage", "exit_prompt"}
            /\ pc' = "ErrorPause"
       ELSE /\ shown' = {}
            /\ pc' = "FileValidate"
    /\ UNCHANGED << sys_argv, files, time_str, parsed, start_input, start_time,
                    end_input, end_time, output_path, response, confirm, cmd,
                    invocations, tool, success, exit_status >>

\* lines 105-124: the file checks, up to the first prompt for the start time
FileValidate ==
    /\ pc = "FileValidate"
    /\ LET input_path == sys_argv[2]
       IN  IF ~PathExists(input_path)
           THEN /\ shown' = {"not_exist", "exit_prompt"}
                /\ pc' = "ErrorPause"
           ELSE IF ~PathIsFile(input_path)
           THEN /\ shown' = {"not_file", "exit_prompt"}
                /\ pc' = "ErrorPause"
           ELSE /\ shown' = {"input_file", "file_size", "start_prompt"}
                /\ pc' = "StartTimeInput"
    /\ UNCHANGED << sys_argv, files, time_str, parsed, start_input, start_time,
                    end_input, end_time, output_path, response, confirm, cmd,
                    invocations, tool, success, exit_status >>

\* lines 102-103, 110-111, 115-116: Enter is pressed, sys.exit(1)
ErrorExit ==
    /\ pc = "ErrorPause"
    /\ pc' = "exited"
    /\ exit_status' = 1
    /\ shown' = {}
    /\ UNCHANGED << sys_argv, files, time_str, parsed, start_input, start_time,
                    end_input, end_time, output_path, response, confirm, cmd,
                    invocations, tool, success >>

\* lines 123-137: one round of the start time loop
StartTimeInput ==
    /\ pc = "StartTimeInput"
    /\ \E line \in SessionTexts :
        LET text == Strip(line)
            r == parse_time(text)
        IN  /\ start_input' = text
            /\ time_str' = text
            /\ parsed' = r
            /\ IF r.kind # "value"
               THEN /\ shown' = {"parse_error", "start_prompt"}
                    /\ pc' = "StartTimeInput"
                    /\ UNCHANGED start_time
               ELSE IF r.value < 0
               THEN /\ shown' = {"negative_error", "start_prompt"}
                    /\ pc' = "StartTimeInput"
                    /\ start_time' = r.value
               ELSE /\ shown' = {"end_prompt"}
                    /\ pc' = "EndTimeInput"
                    /\ start_time' = r.value
    /\ UNCHANGED << sys_argv, files, end_input, end_time, output_path, response,
                    confirm, cmd, invocations, tool, success, exit_status >>

\* lines 136-145: one round of the end time loop
EndTimeInput ==
    /\ pc = "EndTimeInput"
    /\ \E line \in SessionTexts :
        LET text == Strip(line)
            r == parse_time(text)
        IN  /\ end_input' = text
            /\ time_str' = text
            /\ parsed' = r
            /\ IF r.kind # "value"
               THEN /\ shown' = {"parse_error", "end_prompt"}
                    /\ pc' = "EndTimeInput"
                    /\ UNCHANGED end_time
               ELSE IF EndRejected(r.value, start_time)
               THEN /\ shown' = {"range_error", "end_prompt"}
                    /\ pc' = "EndTimeInput"
                    /\ end_time' = r.value
               ELSE /\ shown' = {}
                    /\ pc' = "Summarize"
                    /\ end_time' = r.value
    /\ UNCHANGED << sys_argv, files, start_input, start_time, output_path, response,
                    confirm, cmd, invocations, tool, success, exit_status >>

\* lines 147-149
Summarize ==
    /\ pc = "Summarize"
    /\ shown' = {"start_time", "end_time", "duration"}
    /\ pc' = "ResolveOutput"
    /\ UNCHANGED << sys_argv, files, time_str, parsed, start_input, start_time,
                    end_input, end_time, output_path, response, confirm, cmd,
                    invocations, tool, success, exit_status >>

\* lines 153-169: the output path, up to the confirm prompt
ResolveOutput ==
    /\ pc = "ResolveOutput"
    /\ output_path' = ResolveOutputPath(files, PathStem(sys_argv[2]), start_input,
                                        end_input, PathSuffix(sys_argv[2]))
    /\ shown' = {"output_file", "confirm_prompt"}
    /\ pc' = "Confirm"
    /\ UNCHANGED << sys_argv, files, time_str, parsed, start_input, start_time,
                    end_input, end_time, response, confirm, cmd, invocations, tool,
                    success, exit_status >>

\* lines 169-172: the answer to the confirm prompt
Confirm ==
    /\ pc = "Confirm"
    /\ \E line \in Responses :
        /\ response' = line
        /\ confirm' = Lower(Strip(line))
        /\ IF ~ConfirmAccepted(confirm')
           THEN /\ shown' = {"cancelled"}
                /\ pc' = "exited"
                /\ exit_status' = 0
           ELSE /\ shown' = {}
                /\ pc' = "Execute"
                /\ UNCHANGED exit_status
    /\ UNCHANGED << sys_argv, files, time_str, parsed, start_input, start_time,
                    end_input, end_time, output_path, cmd, invocations, tool, success >>

\* lines 175-182: cut_video (lines 49-94) and the report, up to the final pause.
\* The tool is a black box: a run that fails may or may not have written output.
Execute ==
    /\ pc = "Execute"
    /\ \E local_exists \in BOOLEAN, system_exists \in BOOLEAN, partial \in BOOLEAN :
        \E outcome \in RunOutcomes(local_exists, system_exists) :
            /\ cmd' = BuildCmd(FfmpegExe(local_exists), sys_argv[2], start_time,
                               end_time, output_path)
            /\ invocations' = invocations + 1
            /\ tool' = outcome
            /\ files' = IF outcome = "returned" \/ (outcome = "CalledProcessError" /\ partial)
                        THEN files \cup {output_path}
                        ELSE files
            /\ IF outcome = "returned"
               THEN /\ success' = TRUE
                    /\ shown' = {"executing", "completed", "saved", "output_size", "exit_prompt"}
                    /\ pc' = "Finish"
                    /\ UNCHANGED exit_status
               ELSE IF Handled(outcome)
               THEN /\ success' = FALSE
                    /\ shown' = {"executing", outcome, "exit_prompt"}
                    /\ pc' = "Finish"
                    /\ UNCHANGED exit_status
               ELSE /\ success' = FALSE
                    /\ shown' = {"executing", "traceback"}
                    /\ pc' = "exited"
                    /\ exit_status' = 1
    /\ UNCHANGED << sys_argv, time_str, parsed, start_input, start_time, end_input,
                    end_time, output_path, response, confirm >>

\* line 182: Enter is pressed, main returns
Finish ==
    /\ pc = "Finish"
    /\ pc' = "exited"
    /\ exit_status' = 0
    /\ shown' = {}
    /\ UNCHANGED << sys_argv, files, time_str, parsed, start_input, start_time,
                    end_input, end_time, output_path, response, confirm, cmd,
                    invocations, tool, success >>

Next ==
    \/ ArgCheck
    \/ FileValidate
    \/ ErrorExit
    \/ StartTimeInput
    \/ EndTimeInput
    \/ Summarize
    \/ ResolveOutput
    \/ Confirm
    \/ Execute
    \/ Finish

Spec == Init /\ [][Next]_vars

\* ------------------------------------------------------------------ parser specification

Idle ==
    /\ sys_argv = << "mkvCut.py" >>
    /\ files = {}
    /\ start_input = << >>
    /\ start_time = 0
    /\ end_input = << >>
    /\ end_time = 0
    /\ output_path = << >>
    /\ response = << >>
    /\ confirm = << >>
    /\ cmd = << >>
    /\ invocations = 0
    /\ tool = "none"
    /\ success = FALSE
    /\ shown = {}
    /\ exit_status = -1

InitParse ==
    /\ pc = "parse_time"
    /\ IsParseText(time_str)
    /\ parsed = NoCall
    /\ Idle

ParseTimeCall ==
    /\ pc = "parse_time"
    /\ parsed' = parse_time(time_str)
    /\ pc' = "returned"
    /\ UNCHANGED << sys_argv, files, time_str, start_input, start_time, end_input,
                    end_time, output_path, response, confirm, cmd, invocations,
                    tool, success, shown, exit_status >>

NextParse == ParseTimeCall

SpecParse == InitParse /\ [][NextParse]_vars

\* ------------------------------------------------------------------ claims

\* a text of 1 to 6 decimal digits
IsDecimal(t) == Len(t) \in 1..6 /\ \A i \in 1..Len(t) : t[i] \in Digit

\* the text left-padded with zeros to 6 characters
LeftPad6(t) == [i \in 1..6 |-> IF i <= 6 - Len(t) THEN "0" ELSE t[i - (6 - Len(t))]]

\* the 2-digit group of p at positions i, i + 1
TwoDigits(p, i) == 10 * DigitVal(p[i]) + DigitVal(p[i + 1])

\* hours*3600 + minutes*60 + seconds of the padded text's groups [0:2], [2:4], [4:6]
PadAndSlice(t) ==
    LET p == LeftPad6(t)
    IN  TwoDigits(p, 1) * 3600 + TwoDigits(p, 3) * 60 + TwoDigits(p, 5)

\* C1: for every input whose stripped text is 1 to 6 decimal digits, parse_time
\* returns hours*3600 + minutes*60 + seconds of the three 2-digit groups of the
\* text left-padded with zeros to 6 characters; the groups are not range-limited:
\* "45" gives 45, "100" gives 60, "013245" gives 5565.
C1_ParseTimeValue ==
    (pc = "returned" /\ IsDecimal(Strip(time_str))) =>
        /\ parsed = Value(PadAndSlice(Strip(time_str)))
        /\ time_str = << "4", "5" >> => parsed.value = 45
        /\ time_str = << "1", "0", "0" >> => parsed.value = 60
        /\ time_str = << "0", "1", "3", "2", "4", "5" >> => parsed.value = 5565
        /\ time_str = << "9", "9", "9", "9", "9", "9" >> => parsed.value = 362439

C1_Witness ==
    /\ pc = "returned"
    /\ time_str = << "0", "1", "3", "2", "4", "5" >>
    /\ parsed = Value(5565)

\* C2: parse_time never returns a value for an invalid input and reports the
\* documented error kind: NonDigit when any character of the stripped text is
\* not a decimal digit, BadLength when the stripped text has length 0 or more
\* than 6 (so "" and "1234567" fail with BadLength and "12a45" with NonDigit).
C2_ErrorKinds ==
    pc = "returned" =>
        LET clean == Strip(time_str)
            nondigit == \E i \in 1..Len(clean) : clean[i] \notin Digit
            badlength == Len(clean) = 0 \/ Len(clean) > 6
        IN  /\ (nondigit \/ badlength) => parsed.kind # "value"
            /\ nondigit => parsed.kind = "NonDigit"
            /\ (badlength /\ ~nondigit) => parsed.kind = "BadLength"

\* a response that is empty once stripped
IsBlank(r) == \A i \in 1..Len(r) : r[i] \in Whitespace

\* a response that is "y" once stripped and lower-cased
IsYes(r) ==
    \E i \in 1..Len(r) :
        /\ r[i] \in {"y", "Y"}
        /\ \A j \in 1..Len(r) : j # i => r[j] \in Whitespace

\* C3: the external tool is invoked in a run only if the response at the confirm
\* step, stripped and lower-cased, is empty or "y"; for any other response the
\* tool is never invoked in that run and the process exits with status 0.
C3_ConfirmationGate ==
    /\ invocations > 0 => (IsBlank(response) \/ IsYes(response))
    /\ ~(IsBlank(response) \/ IsYes(response)) =>
        /\ invocations = 0
        /\ tool = "none"
        /\ pc = "exited"
        /\ exit_status = 0

C3_Witness ==
    /\ response = << "n" >>
    /\ pc = "exited"
    /\ exit_status = 0
    /\ invocations = 0

\* C4: the resolved output path does not exist at the moment of resolution: it is
\* "{stem}_{rawStart}_{rawEnd}{suffix}" when that name is free, and otherwise the
\* name with "_k" before the suffix for the smallest k >= 1 whose name is free;
\* rawStart and rawEnd are the texts entered, not the parsed values.
C4_OutputPathFree ==
    pc = "Confirm" =>
        LET stem == PathStem(sys_argv[2])
            suffix == PathSuffix(sys_argv[2])
            base == BaseName(stem, start_input, end_input, suffix)
            name(k) == CounterName(stem, start_input, end_input, k, suffix)
            from == Len(stem) + 2
        IN  /\ output_path \notin files
            /\ base \notin files => output_path = base
            /\ base \in files =>
                \E k \in 1..(Cardinality(files) + 1) :
                    /\ output_path = name(k)
                    /\ \A j \in 1..(k - 1) : name(j) \in files
            /\ SubSeq(output_path, 1, Len(stem)) = stem
            /\ SubSeq(output_path, from, from + Len(start_input) - 1) = start_input
            /\ SubSeq(output_path, from + Len(start_input) + 1,
                      from + Len(start_input) + Len(end_input)) = end_input
            /\ SubSeq(output_path, Len(output_path) - Len(suffix) + 1, Len(output_path)) = suffix

C4_Witness ==
    /\ pc = "Confirm"
    /\ Cardinality(files) >= 2
    /\ output_path = << "c", "l", "i", "p", "_", "4", "5", "_", "0", "1", "3", "0",
                        "_", "2", ".", "m", "p", "4" >>

\* the seconds a clock text H..H:MM:SS.mmm stands for
ClockSeconds(c) ==
    LET n == Len(c)
    IN  IntOf(SubSeq(c, 1, n - 10)) * 3600 + IntOf(SubSeq(c, n - 8, n - 7)) * 60
            + IntOf(SubSeq(c, n - 5, n - 4))

\* a clock text has at least 2 hour digits, 2 minute digits and SS.000
IsClock(c) ==
    LET n == Len(c)
    IN  /\ n >= 12
        /\ c[n - 9] = ":" /\ c[n - 6] = ":" /\ c[n - 3] = "."
        /\ SubSeq(c, n - 2, n) = << "0", "0", "0" >>
        /\ \A i \in (1..(n - 10)) \cup {n - 8, n - 7, n - 5, n - 4} : c[i] \in Digit

Clock45 == << "0", "0", ":", "0", "0", ":", "4", "5", ".", "0", "0", "0" >>

\* C5: every invocation carries, in this order, -ss with the formatted start
\* time, -i with the input path and -t with the formatted value of end minus
\* start (never the absolute end time); for start "45" and end "0130" both values
\* are "00:00:45.000"; the duration passed is strictly positive.
C5_Invocation ==
    invocations > 0 =>
        /\ cmd[2] = "-ss"
        /\ cmd[3] = format_time(start_time)
        /\ IsClock(cmd[3])
        /\ ClockSeconds(cmd[3]) = start_time
        /\ cmd[4] = "-i"
        /\ cmd[5] = sys_argv[2]
        /\ cmd[6] = "-t"
        /\ IsClock(cmd[7])
        /\ ClockSeconds(cmd[7]) = end_time - start_time
        /\ ClockSeconds(cmd[7]) > 0
        /\ (start_input = << "4", "5" >> /\ end_input = << "0", "1", "3", "0" >>) =>
            (cmd[3] = Clock45 /\ cmd[7] = Clock45)

C5_Witness ==
    /\ invocations = 1
    /\ start_input = << "4", "5" >>
    /\ end_input = << "0", "1", "3", "0" >>
    /\ cmd[3] = Clock45
    /\ cmd[7] = Clock45

\* C6: the session gets past ArgCheck and FileValidate only when exactly one
\* positional argument was given and it names an existing regular file; in every
\* other case the program reports the problem, waits for acknowledgment and exits
\* with status 1, without prompting for a time and without invoking the tool.
C6_ExactlyOneArgument ==
    LET one_file ==
            /\ Len(sys_argv) = 2
            /\ PathExists(sys_argv[2])
            /\ PathIsFile(sys_argv[2])
    IN  ~one_file =>
            /\ pc \in {"ArgCheck", "FileValidate", "ErrorPause", "exited"}
            /\ pc = "ErrorPause" => shown \cap {"usage", "not_exist", "not_file"} # {}
            /\ pc = "exited" => exit_status = 1
            /\ shown \cap {"start_prompt", "end_prompt"} = {}
            /\ invocations = 0

\* C7: when the tool exits non-zero or cannot be found, cut_video returns failure
\* with a diagnostic and no unhandled fault escapes; the session makes at most
\* one invocation per run, reaches the final pause and ends with exit status 0.
C7_ToolFailureHandled ==
    /\ invocations <= 1
    /\ tool \in {"CalledProcessError", "FileNotFoundError"} =>
        /\ invocations = 1
        /\ success = FALSE
        /\ pc \in {"Finish", "exited"}
        /\ pc = "Finish" => {tool, "exit_prompt"} \subseteq shown
        /\ "traceback" \notin shown
        /\ pc = "exited" => exit_status = 0

C7_Witness ==
    /\ tool = "FileNotFoundError"
    /\ success = FALSE
    /\ pc = "exited"
    /\ exit_status = 0

\* C8: in every run in which the tool invocation fails (non-zero exit after
\* possibly having written some of the output, or tool not found), no file exists
\* at the resolved output path when the program terminates.
C8_NoPartialOutput ==
    (pc = "exited" /\ tool \in {"CalledProcessError", "FileNotFoundError"}) =>
        output_path \notin files

\* the states from Summarize onward
PastEndTimeInput ==
    \/ pc \in {"Summarize", "ResolveOutput", "Confirm", "Execute", "Finish"}
    \/ pc = "exited" /\ exit_status = 0

C9_Range ==
    PastEndTimeInput =>
        /\ IsDecimal(start_input)
        /\ IsDecimal(end_input)
        /\ start_time = PadAndSlice(start_input)
        /\ end_time = PadAndSlice(end_input)
        /\ end_time > start_time
        /\ start_time >= 0

C9_Retry ==
    /\ pc = "StartTimeInput" =>
        /\ pc' \in {"StartTimeInput", "EndTimeInput"}
        /\ exit_status' = exit_status
        /\ ~IsDecimal(start_input') => (pc' = "StartTimeInput" /\ "start_prompt" \in shown')
    /\ pc = "EndTimeInput" =>
        /\ pc' \in {"EndTimeInput", "Summarize"}
        /\ exit_status' = exit_status
        /\ start_time' = start_time
        /\ start_input' = start_input
        /\ (~IsDecimal(end_input') \/ PadAndSlice(end_input') <= start_time) =>
            (pc' = "EndTimeInput" /\ "end_prompt" \in shown')

\* C9: every parse error or range error at the time prompts only causes a
\* re-prompt of the same step (never a crash or an exit, and a rejected end time
\* never changes the accepted start time), and in every state from Summarize
\* onward end > start >= 0 holds for the parsed values of the last texts entered.
C9_RetryLoops == []C9_Range /\ [][C9_Retry]_vars

C9_Witness ==
    /\ pc = "EndTimeInput"
    /\ "range_error" \in shown
    /\ start_input = << "4", "5" >>
    /\ end_time <= start_time

\* C10: for every start text accepted by StartTimeInput there is at least one
\* 1-6 digit end text that EndTimeInput accepts (in particular after "999999").
C10_EndAlwaysPossible ==
    pc = "EndTimeInput" =>
        \E t \in SessionTexts \cup DigitTexts :
            /\ IsDecimal(t)
            /\ parse_time(t).kind = "value"
            /\ ~EndRejected(parse_time(t).value, start_time)

====
